---- MODULE Spec2Model ----
\* Model of the pcgtools loader (src/src/main.rs): the recursive descriptor
\* (PCC) reader, the list (LST) reader with its alias table and KEY override,
\* and the data dictionary they fill.
\*
\* Text is modelled character by character: a string is a sequence of
\* one-character strings, so that split, strip and prefix tests are computed
\* as the code computes them.
EXTENDS Integers, Sequences, FiniteSets, TLC

\* ---------------------------------------------------------------- bounds
\* lines consumed in one load, descriptor and list lines together
MaxLines == 4
\* nesting depth of descriptor files (the toplevel file is depth 1)
MaxDepth == 2

\* ---------------------------------------------------------------- strings
TAB == "\t"
NL == <<"\n">>
BACKSLASH == "\\"
WhiteSpace == {" ", "\t", "\n", "\r"}

None == [some |-> FALSE, val |-> <<>>]
Some(v) == [some |-> TRUE, val |-> v]

RECURSIVE find_from(_, _, _)
find_from(s, c, i) ==
    IF i > Len(s) THEN 0
    ELSE IF s[i] = c THEN i
    ELSE find_from(s, c, i + 1)

find(s, c) == find_from(s, c, 1)

\* str::split_once: the parts before and after the first c, or None
split_once(s, c) ==
    LET i == find(s, c)
    IN  IF i = 0 THEN None
        ELSE Some(<<SubSeq(s, 1, i - 1), SubSeq(s, i + 1, Len(s))>>)

\* str::split: always at least one piece
RECURSIVE split(_, _)
split(s, c) ==
    LET i == find(s, c)
    IN  IF i = 0 THEN <<s>>
        ELSE <<SubSeq(s, 1, i - 1)>> \o split(SubSeq(s, i + 1, Len(s)), c)

\* str::ends_with
ends_with(s, suf) ==
    /\ Len(s) >= Len(suf)
    /\ SubSeq(s, Len(s) - Len(suf) + 1, Len(s)) = suf

\* token.trim().is_empty()
trim_is_empty(s) == \A i \in 1..Len(s) : s[i] \in WhiteSpace

\* str::replace of one character by another
replace(s, from, to) == [i \in 1..Len(s) |-> IF s[i] = from THEN to ELSE s[i]]

RECURSIVE trim_end_slashes(_)
trim_end_slashes(s) ==
    IF s # <<>> /\ s[Len(s)] = "/" THEN trim_end_slashes(SubSeq(s, 1, Len(s) - 1))
    ELSE s

RECURSIVE rfind_from(_, _, _)
rfind_from(s, c, i) ==
    IF i = 0 THEN 0
    ELSE IF s[i] = c THEN i
    ELSE rfind_from(s, c, i - 1)

\* Path::parent as a string: None for the empty path and for the root;
\* otherwise the path without its last component (separators that end the
\* path or precede the last component are not part of either). Paths with a
\* "." component after the first are not among the inputs below.
dir_from_path(full_path) ==
    LET p == trim_end_slashes(full_path)
        i == rfind_from(p, "/", Len(p))
        d == trim_end_slashes(SubSeq(p, 1, i - 1))
    IN  IF p = <<>> THEN None
        ELSE IF i = 0 THEN Some(<<>>)
        ELSE IF d = <<>> THEN Some(<<"/">>)
        ELSE Some(d)

\* ---------------------------------------------------------------- maps
EmptyMap == [x \in {} |-> x]
Put(m, k, v) == [x \in (DOMAIN m) \cup {k} |-> IF x = k THEN v ELSE m[x]]
Remove(m, k) == [x \in (DOMAIN m) \ {k} |-> m[x]]

\* ---------------------------------------------------------------- schema
TextNames ==
    {<<"P","R","E","C","A","M","P","A","I","G","N">>, <<"B","O","O","K","T","Y","P","E">>, <<"C","A","M","P","A","I","G","N">>, <<"C","O","M","P","A","N","I","O","N","L","I","S","T">>, <<"C","O","P","Y","R","I","G","H","T">>,
     <<"C","O","V","E","R">>, <<"D","E","S","C">>, <<"D","Y","N","A","M","I","C">>, <<"F","O","R","W","A","R","D","R","E","F">>, <<"G","A","M","E","M","O","D","E">>, <<"G","E","N","R","E">>, <<"H","E","L","P">>,
     <<"H","I","D","E","T","Y","P","E">>, <<"K","E","Y">>, <<"L","O","G","O">>, <<"P","U","B","N","A","M","E","L","O","N","G">>, <<"P","U","B","N","A","M","E","S","H","O","R","T">>, <<"P","U","B","N","A","M","E","W","E","B">>,
     <<"S","E","T","T","I","N","G">>, <<"S","H","O","W","I","N","M","E","N","U">>, <<"S","O","U","R","C","E","L","O","N","G">>, <<"S","O","U","R","C","E","S","H","O","R","T">>, <<"S","O","U","R","C","E","W","E","B">>,
     <<"S","T","A","T","U","S">>, <<"T","Y","P","E">>, <<"U","R","L">>}

BoolNames == {<<"I","N","F","O","T","E","X","T">>, <<"I","S","O","G","L">>, <<"I","S","L","I","C","E","N","S","E","D">>}

NumberNames == {<<"R","A","N","K">>}

DateNames == {<<"S","O","U","R","C","E","D","A","T","E">>}

PccFileNames == {<<"P","C","C">>}

LstFileNames ==
    {<<"A","B","I","L","I","T","Y">>, <<"A","B","I","L","I","T","Y","C","A","T","E","G","O","R","Y">>, <<"A","L","I","G","N","M","E","N","T">>, <<"A","R","M","O","R","P","R","O","F">>, <<"B","I","O","S","E","T">>,
     <<"C","L","A","S","S">>, <<"C","O","M","P","A","N","I","O","N","M","O","D">>, <<"D","A","T","A","T","A","B","L","E">>, <<"D","A","T","A","C","O","N","T","R","O","L">>, <<"D","E","I","T","Y">>, <<"D","O","M","A","I","N">>,
     <<"E","Q","U","I","P","M","E","N","T">>, <<"E","Q","U","I","P","M","O","D">>, <<"G","L","O","B","A","L","M","O","D","I","F","I","E","R">>, <<"K","I","T">>, <<"L","A","N","G","U","A","G","E">>, <<"R","A","C","E">>,
     <<"S","A","V","E">>, <<"S","H","I","E","L","D","P","R","O","F">>, <<"S","I","Z","E">>, <<"S","K","I","L","L">>, <<"S","P","E","L","L">>, <<"S","T","A","T">>, <<"T","E","M","P","L","A","T","E">>,
     <<"V","A","R","I","A","B","L","E">>, <<"W","E","A","P","O","N","P","R","O","F">>}

new_pcc_schema ==
    [n \in TextNames \cup BoolNames \cup NumberNames \cup DateNames
            \cup PccFileNames \cup LstFileNames |->
        IF n \in TextNames THEN "Text"
        ELSE IF n \in BoolNames THEN "Bool"
        ELSE IF n \in NumberNames THEN "Number"
        ELSE IF n \in DateNames THEN "Date"
        ELSE IF n \in PccFileNames THEN "PccFile"
        ELSE "LstFile"]

\* ---------------------------------------------------------------- data
PccElem_new(ident) == [ident |-> ident, attribs |-> <<>>]
PccList_new(ident) == [ident |-> ident, props |-> EmptyMap]
Text(s) == [kind |-> "Text", val |-> s]
List(l) == [kind |-> "List", val |-> l]

\* ---------------------------------------------------------------- inputs
\* --datadir values given on the command line
DatadirArgs == {<<"/","d","a","t","a">>, <<"/","d","a","t","a","/">>}

\* toplevel descriptor paths given on the command line
PccFileArgs == {<<"s","r","c","/","x",".","p","c","c">>}

\* lines a descriptor file may hold
PccLines ==
    {<<"D","E","S","C",":","A">>,   \* "DESC:A"
     <<"!","D","E","S","C",":","B">>,   \* "!DESC:B"
     <<"R","A","N","K",":","7">>,   \* "RANK:7"
     <<"#"," ","n","o","t","e">>,   \* "# note"
     <<"N","O","T","A","G","_","N","O","_","C","O","L","O","N">>,   \* "NOTAG_NO_COLON"
     <<"B","O","G","U","S",":","x">>,   \* "BOGUS:x"
     <<"S","P","E","L","L",":","f",".","l","s","t">>,   \* "SPELL:f.lst"
     <<"S","P","E","L","L",":","@","s","u","b","/","f",".","l","s","t">>,   \* "SPELL:@sub/f.lst"
     <<"S","P","E","L","L",":","/","x","/","y">>,   \* "SPELL:/x/y"
     <<"E","Q","U","I","P","M","E","N","T",":","*","w",".","l","s","t","|","o","p","t","s">>,   \* "EQUIPMENT:*w.lst|opts"
     <<"S","P","E","L","L",":">>,   \* "SPELL:"
     <<"S","P","E","L","L",":","|","o","p","t","s">>,   \* "SPELL:|opts"
     <<"P","C","C",":","@","a","/","b",".","p","c","c">>,   \* "PCC:@a/b.pcc"
     <<"P","C","C",":","a","/","b",".","p","c","c">>,   \* "PCC:a/b.pcc"
     <<"P","C","C",":","@","a","\\","b",".","p","c","c">>,   \* "PCC:@a\\b.pcc"
     <<"P","C","C",":">>}   \* "PCC:"

\* lines a list file may hold
LstLines ==
    {<<"S","w","o","r","d","\t","A","B","B",":","S","W">>,   \* "Sword\tABB:SW"
     <<"S","W",".","M","O","D","\t","D","M","G",":","1","d","8">>,   \* "SW.MOD\tDMG:1d8"
     <<"T","e","m","p","\t","K","E","Y",":","R","e","a","l","\t","C","O","S","T",":","5">>,   \* "Temp\tKEY:Real\tCOST:5"
     <<"S","w","o","r","d","\t","K","E","Y",":","B","l","a","d","e","\t","A","B","B",":","S","W">>,   \* "Sword\tKEY:Blade\tABB:SW"
     <<"A","x","e","\t","A","B","B",":","S","W","\t","K","E","Y",":","H","a","c","k">>,   \* "Axe\tABB:SW\tKEY:Hack"
     <<"S","W","\t"," ","\t","F","I","N","E","S","S","E">>,   \* "SW\t \tFINESSE"
     <<>>}   \* ""

\* ---------------------------------------------------------------- state
VARIABLES
    datadir,    \* Pcc.config.datadir
    dict,       \* Pcc.dict
    aliases,    \* Pcc.aliases
    stack,      \* active read / read_lst calls, innermost last
    status,     \* "new", "running", or the outcome of the toplevel read:
                \* "ok" (Ok returned), "err" (Err returned to main), "panic"
    opened,     \* the last path handed to File::open
    last,       \* the last input consumed
    textSeen,   \* the value directives consumed so far, in order
    abbSeen,    \* <<I, A>>: a list line with working identifier I carried ABB:A
    nPcc,       \* descriptor lines consumed
    nLst        \* list lines consumed

vars == <<datadir, dict, aliases, stack, status, opened, last, textSeen, abbSeen, nPcc, nLst>>

\* the part of the state the reader functions work on
St == [dict |-> dict, aliases |-> aliases, stack |-> stack, status |-> status,
       opened |-> opened]

Top == stack[Len(stack)]
Front(s) == SubSeq(s, 1, Len(s) - 1)

\* ---------------------------------------------------------------- list reader
\* the ".MOD" suffix is cut from the identifier
strip_mod(raw_ident) ==
    IF ends_with(raw_ident, <<".","M","O","D">>) THEN SubSeq(raw_ident, 1, Len(raw_ident) - 4)
    ELSE raw_ident

\* faulty variant of alias_lookup: the alias table is not consulted
alias_lookup_skipped(al, ident) == ident

\* if ident is an alias, the true ident
alias_lookup(al, ident) == IF ident \in DOMAIN al THEN al[ident] ELSE ident

\* one attribute token: key:value, or a bare key, or nothing for a blank token
parse_attrib(token) ==
    LET so == split_once(token, ":")
    IN  IF so.some THEN <<so.val>>
        ELSE IF ~trim_is_empty(token) THEN << <<token, <<>> >> >>
        ELSE <<>>

RECURSIVE gather_attribs(_)
gather_attribs(tokens) ==
    IF tokens = <<>> THEN <<>>
    ELSE parse_attrib(Head(tokens)) \o gather_attribs(Tail(tokens))

\* faulty variant of abb_insert: key and value of the alias entry swapped
abb_insert_swapped(al, val, ident) == Put(al, ident, val)

\* "ABB" arm of the pre-processing loop
abb_insert(al, val, ident) == Put(al, val, ident)

\* faulty variant of key_override: the KEY value is not taken
key_override_ignored(ident, val) == ident

\* "KEY" arm of the pre-processing loop
key_override(ident, val) == val

\* the pre-processing loop over the attributes, in token order
RECURSIVE pre_process(_, _, _)
pre_process(attribs, al, ident) ==
    IF attribs = <<>> THEN [aliases |-> al, ident |-> ident]
    ELSE LET key == Head(attribs)[1]
             val == Head(attribs)[2]
         IN  IF key = <<"A","B","B">> THEN pre_process(Tail(attribs), abb_insert(al, val, ident), ident)
             ELSE IF key = <<"K","E","Y">> THEN pre_process(Tail(attribs), al, key_override(ident, val))
             ELSE pre_process(Tail(attribs), al, ident)

\* faulty variant of merge_attribs: the new attributes replace the old
merge_attribs_replace(old, new) == new

\* merge new attribs into the master attrib list
merge_attribs(old, new) == old \o new

\* take the Elem out (or make a new one), push the attribs, put it back
merge_elem(lst, ident, attribs) ==
    LET obj == IF ident \in DOMAIN lst.props THEN lst.props[ident]
               ELSE PccElem_new(ident)
        obj2 == [obj EXCEPT !.attribs = merge_attribs(@, attribs)]
    IN  [lst EXCEPT !.props = Put(Remove(@, ident), ident, obj2)]

\* Pcc::read_lst_line: the alias table and the datum after one list line
read_lst_line(al, datum, line) ==
    LET tokens == split(line, TAB)
        raw_ident == Head(tokens)
        ident == alias_lookup(al, strip_mod(raw_ident))
        attribs == gather_attribs(Tail(tokens))
        pre == pre_process(attribs, al, ident)
    IN  [aliases |-> pre.aliases,
         datum |-> List(merge_elem(datum.val, pre.ident, attribs))]

\* ---------------------------------------------------------------- outcomes
\* faulty variant of propagate: the error ends the innermost call only
propagate_one_level(frames) == Front(frames)

\* an Err value travels up through every `?` of the active calls
RECURSIVE propagate(_)
propagate(frames) == IF frames = <<>> THEN <<>> ELSE propagate(Front(frames))

Err(st) ==
    LET rest == propagate(st.stack)
    IN  [st EXCEPT !.stack = rest,
                   !.status = IF rest = <<>> THEN "err" ELSE @]

\* expect / unwrap / panic!: the process aborts
Panic(st) == [st EXCEPT !.stack = <<>>, !.status = "panic"]

\* ---------------------------------------------------------------- read_lst
\* faulty variant of lst_fpath: a local file is joined without the '/'
lst_fpath_no_separator(dd, basedir, lstpath) ==
    LET prefix == Head(lstpath)
    IN  IF prefix = "/" THEN lstpath
        ELSE IF prefix \in {"@", "*"} THEN dd \o Tail(lstpath)
        ELSE basedir \o lstpath

\* the path prefixes of a list file
lst_fpath(dd, basedir, lstpath) ==
    LET prefix == Head(lstpath)
    IN  IF prefix = "/" THEN lstpath
        ELSE IF prefix \in {"@", "*"} THEN dd \o Tail(lstpath)
        ELSE basedir \o <<"/">> \o lstpath

\* Pcc::read_lst up to the line loop; exists is the outcome of File::open.
\* The datum is taken out of the dictionary before the file is opened and is
\* held by the call until the line loop ends.
read_lst(st, dd, pcc_tag, basedir, lstpath, lstopts, exists) ==
    IF lstpath = <<>> THEN Panic(st)
    ELSE LET fpath == lst_fpath(dd, basedir, lstpath)
             datum == IF pcc_tag \notin DOMAIN st.dict THEN List(PccList_new(pcc_tag))
                      ELSE st.dict[pcc_tag]
             taken == [st EXCEPT !.dict = Remove(@, pcc_tag),
                                 !.opened = [kind |-> "lst", path |-> fpath]]
         IN  IF datum.kind # "List" THEN Panic(st)
             ELSE IF ~exists THEN Err(taken)
             ELSE [taken EXCEPT !.stack =
                        Append(@, [kind |-> "lst", pcc_tag |-> pcc_tag, datum |-> datum])]

\* ---------------------------------------------------------------- read
\* the path of a descriptor file
pcc_fpath(dd, pccpath, is_relative) ==
    replace((IF is_relative THEN dd ELSE <<>>) \o pccpath, BACKSLASH, "/")

\* Pcc::read up to the line loop; exists is the outcome of File::open
read(st, dd, pccpath, is_relative, exists) ==
    LET fpath == pcc_fpath(dd, pccpath, is_relative)
        basedir == dir_from_path(fpath)
        tried == [st EXCEPT !.opened = [kind |-> "pcc", path |-> fpath]]
    IN  IF ~basedir.some THEN Panic(st)
        ELSE IF ~exists THEN Err(tried)
        ELSE [tried EXCEPT !.status = "running",
                           !.stack = Append(@, [kind |-> "pcc", fpath |-> fpath,
                                                basedir |-> basedir.val])]

\* ---------------------------------------------------------------- read_pcc_line
\* a leading '!' is cut from the tag
strip_negate(lhs) == IF lhs # <<>> /\ Head(lhs) = "!" THEN Tail(lhs) ELSE lhs

\* faulty variant of append_text: no newline between the values
append_text_no_newline(val, rhs) == val \o rhs

\* existing key: append to the string value
append_text(val, rhs) == val \o NL \o rhs

\* store a value directive in the data dictionary
store_text(d, lhs, rhs) ==
    IF lhs \notin DOMAIN d THEN Put(d, lhs, Text(rhs))
    ELSE IF d[lhs].kind = "Text" THEN [d EXCEPT ![lhs] = Text(append_text(@.val, rhs))]
    ELSE d

\* faulty variant of pcc_include: every include is taken as relative
pcc_include_always_relative(rhs) ==
    IF rhs # <<>> /\ Head(rhs) = "@" THEN [is_rel |-> TRUE, fpath |-> Tail(rhs)]
    ELSE [is_rel |-> TRUE, fpath |-> rhs]

\* the included descriptor file: path and whether '@' marked it relative
pcc_include(rhs) ==
    IF rhs # <<>> /\ Head(rhs) = "@" THEN [is_rel |-> TRUE, fpath |-> Tail(rhs)]
    ELSE [is_rel |-> FALSE, fpath |-> rhs]

\* Pcc::read_pcc_line
read_pcc_line(st, dd, basedir, line, exists) ==
    LET sor == split_once(line, ":")
        lhs == strip_negate(sor.val[1])
        rhs == sor.val[2]
        tagtype == new_pcc_schema[lhs]
        inc == pcc_include(rhs)
        lp == split_once(rhs, "|")
    IN  IF ~sor.some THEN Err(st)
        ELSE IF lhs \notin DOMAIN new_pcc_schema THEN Err(st)
        ELSE IF tagtype = "PccFile" THEN read(st, dd, inc.fpath, inc.is_rel, exists)
        ELSE IF tagtype = "LstFile" THEN
            IF lp.some THEN read_lst(st, dd, lhs, basedir, lp.val[1], lp.val[2], exists)
            ELSE read_lst(st, dd, lhs, basedir, rhs, <<>>, exists)
        ELSE [st EXCEPT !.dict = store_text(@, lhs, rhs)]

\* comments and empty lines
is_skipped(line) == line = <<>> \/ Head(line) = "#"

\* ---------------------------------------------------------------- main
\* main: the data directory ends with a '/'
main_datadir(arg) == IF arg # <<>> /\ arg[Len(arg)] = "/" THEN arg ELSE arg \o <<"/">>

\* ---------------------------------------------------------------- ghosts
\* a descriptor line that is a value directive (Bool, Date, Number, Text)
ValueNames == TextNames \cup BoolNames \cup NumberNames \cup DateNames

HasColon(line) == \E i \in 1..Len(line) : line[i] = ":"
FirstColon(line) == CHOOSE i \in 1..Len(line) : line[i] = ":" /\ \A j \in 1..(i - 1) : line[j] # ":"
DirName(line) ==
    LET raw == SubSeq(line, 1, FirstColon(line) - 1)
    IN  IF raw # <<>> /\ raw[1] = "!" THEN SubSeq(raw, 2, Len(raw)) ELSE raw
DirRhs(line) == SubSeq(line, FirstColon(line) + 1, Len(line))
IsDirective(line, names) == ~is_skipped(line) /\ HasColon(line) /\ DirName(line) \in names

\* a list line, read as the format describes it
IdentToken(line) == Head(split(line, TAB))
LineAttribs(line) == gather_attribs(Tail(split(line, TAB)))
Stem(token) ==
    IF Len(token) >= 4 /\ SubSeq(token, Len(token) - 3, Len(token)) = <<".","M","O","D">>
    THEN SubSeq(token, 1, Len(token) - 4)
    ELSE token
\* the working identifier: .MOD stripped, then rewritten by the alias table
Working(line, al) ==
    LET t == Stem(IdentToken(line)) IN IF t \in DOMAIN al THEN al[t] ELSE t
KeyIdx(attrs) == {i \in 1..Len(attrs) : attrs[i][1] = <<"K","E","Y">>}
AbbIdx(attrs) == {i \in 1..Len(attrs) : attrs[i][1] = <<"A","B","B">>}
Max(S) == CHOOSE x \in S : \A y \in S : y <= x
AbbPairs(line, al) ==
    {<<Working(line, al), LineAttribs(line)[i][2]>> : i \in AbbIdx(LineAttribs(line))}

NoLine == [op |-> "none", line |-> <<>>, depth |-> 0, file |-> <<>>]
NoOpen == [kind |-> "none", path |-> <<>>]

Apply(r) ==
    /\ dict' = r.dict
    /\ aliases' = r.aliases
    /\ stack' = r.stack
    /\ status' = r.status
    /\ opened' = r.opened

\* ---------------------------------------------------------------- actions
Init ==
    /\ datadir \in {main_datadir(d) : d \in DatadirArgs}
    /\ dict = EmptyMap
    /\ aliases = EmptyMap
    /\ stack = <<>>
    /\ status = "new"
    /\ opened = NoOpen
    /\ last = NoLine
    /\ textSeen = <<>>
    /\ abbSeen = {}
    /\ nPcc = 0
    /\ nLst = 0

\* main calls pcc.read(&args.pccfile, true)
Main ==
    /\ status = "new"
    /\ \E pccfile \in PccFileArgs, exists \in BOOLEAN :
        /\ Apply(read(St, datadir, pccfile, TRUE, exists))
        /\ last' = [op |-> "main", line |-> pccfile, depth |-> 0, file |-> <<>>]
    /\ UNCHANGED <<datadir, textSeen, abbSeen, nPcc, nLst>>

\* one turn of the line loop of Pcc::read
ReadPccLine ==
    /\ status = "running"
    /\ Top.kind = "pcc"
    /\ nPcc + nLst < MaxLines
    /\ \E line \in PccLines, exists \in BOOLEAN :
        /\ IsDirective(line, PccFileNames) => Len(stack) < MaxDepth
        /\ IF is_skipped(line) THEN UNCHANGED <<dict, aliases, stack, status, opened>>
           ELSE Apply(read_pcc_line(St, datadir, Top.basedir, line, exists))
        /\ last' = [op |-> "pcc", line |-> line, depth |-> Len(stack), file |-> Top.fpath]
        /\ textSeen' = IF IsDirective(line, ValueNames) THEN Append(textSeen, line)
                       ELSE textSeen
    /\ nPcc' = nPcc + 1
    /\ UNCHANGED <<datadir, abbSeen, nLst>>

\* the line loop of Pcc::read ends: Ok(())
ReadPccEof ==
    /\ status = "running"
    /\ Top.kind = "pcc"
    /\ stack' = Front(stack)
    /\ status' = IF Len(stack) = 1 THEN "ok" ELSE "running"
    /\ last' = [op |-> "eof", line |-> <<>>, depth |-> Len(stack), file |-> Top.fpath]
    /\ UNCHANGED <<datadir, dict, aliases, opened, textSeen, abbSeen, nPcc, nLst>>

\* one turn of the line loop of Pcc::read_lst
ReadLstLine ==
    /\ status = "running"
    /\ Top.kind = "lst"
    /\ nPcc + nLst < MaxLines
    /\ \E line \in LstLines :
        LET r == read_lst_line(aliases, Top.datum, line)
        IN  /\ IF is_skipped(line) THEN UNCHANGED <<aliases, stack>>
               ELSE /\ aliases' = r.aliases
                    /\ stack' = [stack EXCEPT ![Len(stack)].datum = r.datum]
            /\ last' = [op |-> "lst", line |-> line, depth |-> Len(stack), file |-> opened.path]
            /\ abbSeen' = IF is_skipped(line) THEN abbSeen
                          ELSE abbSeen \cup AbbPairs(line, aliases)
    /\ nLst' = nLst + 1
    /\ UNCHANGED <<datadir, dict, status, opened, textSeen, nPcc>>

\* the line loop of Pcc::read_lst ends: the datum goes back into the dictionary
ReadLstEof ==
    /\ status = "running"
    /\ Top.kind = "lst"
    /\ dict' = Put(dict, Top.pcc_tag, Top.datum)
    /\ stack' = Front(stack)
    /\ last' = [op |-> "eof", line |-> <<>>, depth |-> Len(stack), file |-> opened.path]
    /\ UNCHANGED <<datadir, aliases, status, opened, textSeen, abbSeen, nPcc, nLst>>

Next == Main \/ ReadPccLine \/ ReadPccEof \/ ReadLstLine \/ ReadLstEof

Spec == Init /\ [][Next]_vars

\* ---------------------------------------------------------------- properties
\* the step consumed a descriptor line that read_pcc_line was given
PccStep == nPcc' = nPcc + 1 /\ ~is_skipped(last'.line)

\* the path token of a list directive: the right-hand side up to the first '|'
LstToken(line) ==
    LET rhs == DirRhs(line)
    IN  IF \E i \in 1..Len(rhs) : rhs[i] = "|"
        THEN SubSeq(rhs, 1, (CHOOSE i \in 1..Len(rhs) :
                                rhs[i] = "|" /\ \A j \in 1..(i - 1) : rhs[j] # "|") - 1)
        ELSE rhs

\* the directory of a file path: what stands before its last '/'
DirOf(path) ==
    LET slashes == {i \in 1..Len(path) : path[i] = "/"}
    IN  IF slashes = {} THEN <<>>
        ELSE SubSeq(path, 1, (CHOOSE i \in slashes : \A j \in slashes : j <= i) - 1)

Slashed(s) == [i \in 1..Len(s) |-> IF s[i] = BACKSLASH THEN "/" ELSE s[i]]

RECURSIVE JoinNL(_)
JoinNL(ss) == IF Len(ss) = 1 THEN ss[1] ELSE ss[1] \o NL \o JoinNL(Tail(ss))

SeenNames == {DirName(textSeen[i]) : i \in 1..Len(textSeen)}

RhsOf(name) ==
    LET hits == SelectSeq(textSeen, LAMBDA e : DirName(e) = name)
    IN  [i \in 1..Len(hits) |-> DirRhs(hits[i])]

\* C4: for every directive name of kind Bool, Date, Number or Text, the
\* dictionary value is the right-hand sides of the lines with that name (a
\* leading '!' stripped), in the order they were met across all files, joined
\* by single newlines; no such line, no entry; values A then B give "A\nB".
C4_TextJoin ==
    /\ \A name \in ValueNames \ SeenNames : name \notin DOMAIN dict
    /\ \A name \in SeenNames :
        name \in DOMAIN dict /\ dict[name] = Text(JoinNL(RhsOf(name)))
    /\ ( /\ Len(textSeen) = 2
         /\ textSeen[1] = <<"D","E","S","C",":","A">>
         /\ textSeen[2] = <<"!","D","E","S","C",":","B">> )
       => <<"D","E","S","C">> \in DOMAIN dict /\ dict[<<"D","E","S","C">>] = Text(<<"A","\n","B">>)

\* C4 witness: DESC:A, a PCC include and !DESC:B were read, the last of them
\* in the included file
C4_Witness ==
    /\ Len(textSeen) = 2
    /\ textSeen[1] = <<"D","E","S","C",":","A">>
    /\ textSeen[2] = <<"!","D","E","S","C",":","B">>
    /\ nPcc = 3 /\ nLst = 0
    /\ last.op = "pcc" /\ last.line = <<"!","D","E","S","C",":","B">> /\ last.depth = 2
    /\ <<"D","E","S","C">> \in DOMAIN dict
    /\ dict[<<"D","E","S","C">>].val = <<"A","\n","B">>

\* a descriptor line read_pcc_line rejects: no ':' or a name not in the schema
Offending(line) ==
    /\ ~is_skipped(line)
    /\ ~HasColon(line) \/ DirName(line) \notin DOMAIN new_pcc_schema

\* C6: a descriptor line without ':' or with an unknown name makes the
\* toplevel read return an error through every nested include, leaving the
\* dictionary and the alias table as they were; after the error nothing more
\* is read, opened or changed.
C6_FatalLine ==
    [][ /\ (PccStep /\ Offending(last'.line)) =>
            /\ status' = "err"
            /\ stack' = <<>>
            /\ dict' = dict
            /\ aliases' = aliases
        /\ status = "err" => UNCHANGED <<dict, aliases, opened, nPcc, nLst, stack, status>>
      ]_vars

\* C6 witness: the load failed on an offending line of an included file
C6_Witness ==
    /\ status = "err"
    /\ last.op = "pcc"
    /\ Offending(last.line)
    /\ last.depth >= 2
    /\ stack = <<>>

\* the dictionary as the load has built it: the entries of dict, and the list
\* datum read_lst holds while it reads its file
View ==
    IF stack # <<>> /\ Top.kind = "lst" THEN Put(dict, Top.pcc_tag, Top.datum) ELSE dict

IsPrefix(s, t) == Len(s) <= Len(t) /\ SubSeq(t, 1, Len(s)) = s

Monotone(old, new) ==
    \A k \in DOMAIN old :
        /\ k \in DOMAIN new
        /\ old[k].kind = "List" =>
            /\ new[k].kind = "List"
            /\ \A id \in DOMAIN old[k].val.props :
                /\ id \in DOMAIN new[k].val.props
                /\ IsPrefix(old[k].val.props[id].attribs, new[k].val.props[id].attribs)

\* C7 as claimed: the dictionary only grows during a load, also when read
\* returns an error: every key stays, and every record and attribute pair
\* under a list tag stays; a list directive whose file cannot be opened does
\* not remove the records an earlier directive stored under that tag.
C7_Monotonic == [][Monotone(View, View')]_vars

\* a directive with an empty path token: a list directive whose path part is
\* empty, or a PCC directive with nothing after the ':'
EmptyPathDirective(line) ==
    \/ IsDirective(line, LstFileNames) /\ LstToken(line) = <<>>
    \/ IsDirective(line, PccFileNames) /\ DirRhs(line) = <<>>

\* C8 as claimed: a directive with an empty path token makes read return an
\* Err value to the toplevel caller, not abort the process.
C8_EmptyPathIsErr ==
    (last.op = "pcc" /\ EmptyPathDirective(last.line)) => status = "err"

\* the file a list directive opens, by the first character of its token
LstExpected(token, base_dir, data_dir) ==
    IF token[1] = "/" THEN token
    ELSE IF token[1] \in {"@", "*"} THEN data_dir \o SubSeq(token, 2, Len(token))
    ELSE base_dir \o <<"/">> \o token

\* C9: for a list directive with a non-empty path token, the file opened is
\* the token itself if it starts with '/', data_dir plus the rest if it
\* starts with '@' or '*', and otherwise base_dir, '/', token, base_dir being
\* the directory of the descriptor file that holds the directive.
C9_LstPath ==
    /\ ( /\ last.op = "pcc"
         /\ IsDirective(last.line, LstFileNames)
         /\ LstToken(last.line) # <<>> )
       => opened = [kind |-> "lst",
                    path |-> LstExpected(LstToken(last.line), DirOf(last.file), datadir)]
    /\ (last.op = "pcc" /\ last.line = <<"S","P","E","L","L",":","/","x","/","y">>) => opened.path = <<"/","x","/","y">>
    /\ (last.op = "pcc" /\ last.line = <<"S","P","E","L","L",":","@","s","u","b","/","f",".","l","s","t">> /\ datadir = <<"/","d","a","t","a","/">>)
       => opened.path = <<"/","d","a","t","a","/","s","u","b","/","f",".","l","s","t">>
    /\ (last.op = "pcc" /\ last.line = <<"S","P","E","L","L",":","f",".","l","s","t">> /\ last.file = <<"/","d","a","t","a","/","s","r","c","/","x",".","p","c","c">>)
       => opened.path = <<"/","d","a","t","a","/","s","r","c","/","f",".","l","s","t">>

\* C9 witness: SPELL:f.lst in /data/src/x.pcc opened /data/src/f.lst
C9_Witness ==
    /\ last.op = "pcc"
    /\ last.line = <<"S","P","E","L","L",":","f",".","l","s","t">>
    /\ last.file = <<"/","d","a","t","a","/","s","r","c","/","x",".","p","c","c">>
    /\ opened = [kind |-> "lst", path |-> <<"/","d","a","t","a","/","s","r","c","/","f",".","l","s","t">>]

\* a PCC directive with something after the ':'
IsInclude(line) == IsDirective(line, PccFileNames) /\ DirRhs(line) # <<>>

\* C10 as claimed: the file a PCC directive reads is data_dir plus the path,
\* a leading '@' stripped, whether or not the path starts with '@'.
C10_AlwaysDataDir ==
    (last.op = "pcc" /\ IsInclude(last.line)) =>
        LET rhs == DirRhs(last.line)
            rel == IF rhs[1] = "@" THEN SubSeq(rhs, 2, Len(rhs)) ELSE rhs
        IN  opened = [kind |-> "pcc", path |-> Slashed(datadir \o rel)]

\* C10 amended: a PCC directive whose path starts with '@' reads data_dir plus
\* the rest; one whose path does not start with '@' reads the path as written,
\* with no directory put before it; backslashes become '/' in both.
C10_DataDirOnlyWithAt ==
    /\ (last.op = "pcc" /\ IsInclude(last.line)) =>
        LET rhs == DirRhs(last.line)
        IN  opened = [kind |-> "pcc",
                      path |-> Slashed(IF rhs[1] = "@"
                                       THEN datadir \o SubSeq(rhs, 2, Len(rhs))
                                       ELSE rhs)]
    /\ (last.op = "pcc" /\ last.line = <<"P","C","C",":","@","a","/","b",".","p","c","c">>) => opened.path = datadir \o <<"a","/","b",".","p","c","c">>
    /\ (last.op = "pcc" /\ last.line = <<"P","C","C",":","a","/","b",".","p","c","c">>) => opened.path = <<"a","/","b",".","p","c","c">>

\* C10 witness: PCC:a/b.pcc opened a/b.pcc, which is not data_dir + a/b.pcc
C10_Witness ==
    /\ last.op = "pcc"
    /\ last.line = <<"P","C","C",":","a","/","b",".","p","c","c">>
    /\ opened = [kind |-> "pcc", path |-> <<"a","/","b",".","p","c","c">>]
    /\ opened.path # datadir \o <<"a","/","b",".","p","c","c">>

\* the step merged a list line into the record set being read
LstStep == nLst' = nLst + 1 /\ ~is_skipped(last'.line)

\* the record set read_lst is filling
Props == Top.datum.val.props

OldAttribs(P, id) == IF id \in DOMAIN P THEN P[id].attribs ELSE <<>>

\* the record set P after attrs were appended to the record id
Merged(P, id, attrs) ==
    [x \in (DOMAIN P) \cup {id} |->
        IF x = id
        THEN [ident |-> IF id \in DOMAIN P THEN P[id].ident ELSE id,
              attribs |-> OldAttribs(P, id) \o attrs]
        ELSE P[x]]

\* the identifier a line is stored under: the last KEY value, else the
\* working identifier
FinalIdent(line, al) ==
    LET attrs == LineAttribs(line)
    IN  IF KeyIdx(attrs) = {} THEN Working(line, al) ELSE attrs[Max(KeyIdx(attrs))][2]

\* C1 as claimed: once a list line with identifier I has carried ABB:A, every
\* later list line whose identifier token is A or A.MOD and which has no KEY
\* attribute has its attributes appended to the record under I, and no record
\* with id A is created.
C1_AliasForever ==
    [][ (LstStep /\ KeyIdx(LineAttribs(last'.line)) = {}) =>
            \A p \in abbSeen :
                (IdentToken(last'.line) \in {p[2], p[2] \o <<".","M","O","D">>}) =>
                    /\ p[1] \in DOMAIN Props'
                    /\ Props'[p[1]].attribs
                         = OldAttribs(Props, p[1]) \o LineAttribs(last'.line)
                    /\ (p[2] # p[1] /\ p[2] \notin DOMAIN Props) => p[2] \notin DOMAIN Props'
      ]_vars

\* C1 amended: a list line without KEY whose identifier token, .MOD removed,
\* is A, read while the alias table maps A to I, has its attributes appended
\* to the record under I in the record set being read (created if absent),
\* no other record changes and no record A is created unless I = A. The lines
\* Sword<TAB>ABB:SW then SW.MOD<TAB>DMG:1d8 in a fresh record set give exactly
\* one record, Sword, with the ABB pair followed by (DMG,1d8).
C1_AliasWhileMapped ==
    [][ /\ ( /\ LstStep
             /\ KeyIdx(LineAttribs(last'.line)) = {}
             /\ Stem(IdentToken(last'.line)) \in DOMAIN aliases ) =>
               LET A == Stem(IdentToken(last'.line))
                   I == aliases[A]
               IN  /\ Props' = Merged(Props, I, LineAttribs(last'.line))
                   /\ (A # I /\ A \notin DOMAIN Props) => A \notin DOMAIN Props'
        /\ ( /\ LstStep
             /\ last.op = "lst"
             /\ last.line = <<"S","w","o","r","d","\t","A","B","B",":","S","W">>
             /\ last'.line = <<"S","W",".","M","O","D","\t","D","M","G",":","1","d","8">>
             /\ DOMAIN Props = {<<"S","w","o","r","d">>}
             /\ Props[<<"S","w","o","r","d">>].attribs = << <<<<"A","B","B">>, <<"S","W">>>> >> ) =>
               /\ DOMAIN Props' = {<<"S","w","o","r","d">>}
               /\ Props'[<<"S","w","o","r","d">>].attribs = << <<<<"A","B","B">>, <<"S","W">>>>, <<<<"D","M","G">>, <<"1","d","8">>>> >>
      ]_vars

\* C1 witness: after Sword<TAB>ABB:SW and SW.MOD<TAB>DMG:1d8 the set holds the
\* one record Sword
C1_Witness ==
    /\ status = "running"
    /\ Top.kind = "lst"
    /\ last.op = "lst"
    /\ last.line = <<"S","W",".","M","O","D","\t","D","M","G",":","1","d","8">>
    /\ DOMAIN Props = {<<"S","w","o","r","d">>}
    /\ Props[<<"S","w","o","r","d">>].attribs = << <<<<"A","B","B">>, <<"S","W">>>>, <<<<"D","M","G">>, <<"1","d","8">>>> >>
    /\ <<"S","W">> \in DOMAIN aliases /\ aliases[<<"S","W">>] = <<"S","w","o","r","d">>

\* C2: a list line with a KEY attribute is stored under the value of its last
\* KEY attribute; the record under its first-token identifier (after .MOD
\* strip and alias rewrite) is neither created nor extended unless the two
\* are equal; the stored attributes include the (KEY, value) pair.
C2_KeyOverride ==
    [][ (LstStep /\ KeyIdx(LineAttribs(last'.line)) # {}) =>
            LET attrs == LineAttribs(last'.line)
                K == attrs[Max(KeyIdx(attrs))][2]
                W == Working(last'.line, aliases)
            IN  /\ K \in DOMAIN Props'
                /\ Props'[K].attribs = OldAttribs(Props, K) \o attrs
                /\ \E i \in 1..Len(Props'[K].attribs) : Props'[K].attribs[i] = <<<<"K","E","Y">>, K>>
                /\ W # K =>
                    /\ W \in DOMAIN Props' <=> W \in DOMAIN Props
                    /\ W \in DOMAIN Props => Props'[W] = Props[W]
      ]_vars

\* C2 witness: Temp<TAB>KEY:Real<TAB>COST:5 left a record Real and no record Temp
C2_Witness ==
    /\ status = "running"
    /\ Top.kind = "lst"
    /\ last.op = "lst"
    /\ last.line = <<"T","e","m","p","\t","K","E","Y",":","R","e","a","l","\t","C","O","S","T",":","5">>
    /\ <<"R","e","a","l">> \in DOMAIN Props
    /\ <<"T","e","m","p">> \notin DOMAIN Props
    /\ Props[<<"R","e","a","l">>].attribs = << <<<<"K","E","Y">>, <<"R","e","a","l">>>>, <<<<"C","O","S","T">>, <<"5">>>> >>

\* C3 as claimed: every ABB attribute of a list line registers
\* value -> working identifier (after .MOD strip and alias rewrite, before
\* any KEY override), whatever the order of ABB and KEY on the line.
C3_AbbBeforeAnyKey ==
    [][ LstStep =>
            LET attrs == LineAttribs(last'.line)
            IN  \A i \in AbbIdx(attrs) :
                    /\ attrs[i][2] \in DOMAIN aliases'
                    /\ aliases'[attrs[i][2]] = Working(last'.line, aliases)
      ]_vars

\* the identifier in force when attribute i is met: the value of the nearest
\* KEY before it on the line, else the working identifier
IdentAt(line, al, i) ==
    LET attrs == LineAttribs(line)
        before == {k \in KeyIdx(attrs) : k < i}
    IN  IF before = {} THEN Working(line, al) ELSE attrs[Max(before)][2]

\* C3 amended: an ABB attribute registers value -> the identifier in force
\* where it stands: the working identifier when no KEY attribute precedes it
\* on the line, else the value of the nearest KEY before it (the last ABB of
\* a value wins); no other alias changes.
C3_AbbInTokenOrder ==
    [][ LstStep =>
            LET attrs == LineAttribs(last'.line)
                vals == {attrs[i][2] : i \in AbbIdx(attrs)}
            IN  /\ DOMAIN aliases' = (DOMAIN aliases) \cup vals
                /\ \A v \in (DOMAIN aliases) \ vals : aliases'[v] = aliases[v]
                /\ \A v \in vals :
                    aliases'[v] = IdentAt(last'.line, aliases,
                                          Max({i \in AbbIdx(attrs) : attrs[i][2] = v}))
      ]_vars

\* C3 witness: Sword<TAB>KEY:Blade<TAB>ABB:SW registered SW -> Blade
C3_Witness ==
    /\ last.op = "lst"
    /\ last.line = <<"S","w","o","r","d","\t","K","E","Y",":","B","l","a","d","e","\t","A","B","B",":","S","W">>
    /\ <<"S","W">> \in DOMAIN aliases
    /\ aliases[<<"S","W">>] = <<"B","l","a","d","e">>

\* C5: merging a list line never replaces, removes, reorders or deduplicates:
\* the record under the final identifier becomes its previous attributes
\* followed by the line's attributes in token order (exactly the line's
\* attributes if it is new) and every other record stays as it was; the same
\* .MOD line read twice in a row leaves its attributes in the record twice.
C5_MergeAppends ==
    [][ LstStep =>
            LET line == last'.line
                attrs == LineAttribs(line)
                id == FinalIdent(line, aliases)
                now == Props'[id].attribs
            IN  /\ Props' = Merged(Props, id, attrs)
                /\ ( /\ last.op = "lst"
                     /\ last.line = line
                     /\ ends_with(IdentToken(line), <<".","M","O","D">>) ) =>
                       /\ Len(now) >= 2 * Len(attrs)
                       /\ SubSeq(now, Len(now) - 2 * Len(attrs) + 1, Len(now)) = attrs \o attrs
      ]_vars

\* C5 witness: SW.MOD<TAB>DMG:1d8 was read twice and (DMG,1d8) is stored twice
C5_Witness ==
    /\ status = "running"
    /\ Top.kind = "lst"
    /\ last.op = "lst"
    /\ last.line = <<"S","W",".","M","O","D","\t","D","M","G",":","1","d","8">>
    /\ nLst = 2
    /\ DOMAIN Props = {<<"S","W">>}
    /\ Props[<<"S","W">>].attribs = << <<<<"D","M","G">>, <<"1","d","8">>>>, <<<<"D","M","G">>, <<"1","d","8">>>> >>

TypeOK ==
    /\ status \in {"new", "running", "ok", "err", "panic"}
    /\ nPcc + nLst \in 0..MaxLines
    /\ Len(stack) <= MaxDepth + 1
====
